---- MODULE Spec2Model ----
(***************************************************************************)
(* A model of the sack crate: the lock-free Sack<T> (src/src/lib.rs) and   *)
(* the WakerSet built on it (src/src/waker.rs).                            *)
(*                                                                         *)
(* Entries live in a heap of MaxAddr addresses; the allocator may hand out *)
(* any free address, so a released address can be reused.  Every access to *)
(* the shared head (load, compare_exchange_weak, swap), every allocation   *)
(* and every release is one step of one thread.                            *)
(***************************************************************************)
EXTENDS Integers, Sequences, FiniteSets

\* ------------------------------------------------------------- bounds
NThreads == 2
MaxAddr  == 2
MaxItem  == 2
MaxAdds  == 2
NSets      == 2
MaxHandles == 2

Threads == 1..NThreads
Addr    == 1..MaxAddr
Items   == 1..MaxItem
NULL    == 0
Ptr     == Addr \cup {NULL}

VARIABLES
    head,     \* Sack::head, the atomic pointer
    mem,      \* the heap: the Entry at each address, and whether it is allocated
    pc,       \* where each thread is
    loc,      \* each thread's locals: item, entry (add), count (wake_all, clear)
    dr,       \* the Drain each thread holds: live, and its Option<Box<Entry>>
    ret,      \* what the last is_empty, wake_all or clear returned; none once
              \* any other call has begun or returned since (what next
              \* returns is recorded in out)
    wakes,    \* CountingWaker::count of every handle
    set,      \* lifecycle of the WakerSet / Sack object: alive, dropping, gone
    fault,    \* a thread touched or released an entry that is not allocated
    \* history variables, written by the steps but never read by them
    pushed,   \* items whose compare-exchange succeeded since the last swap
    snap,     \* per thread: pushed as it was at the swap of the thread's Drain
    out,      \* per thread: the items its Drain has yielded so far
    torn,     \* per thread: the items released by the drop of its Drain
    added,    \* per item: add calls returned
    yielded,  \* per item: times Drain::next returned it
    dropped,  \* per item: entries released by Drain::drop
    due,      \* per item: times a wake_all swap detached it
    cleared,  \* per item: times a clear swap detached it
    \* observers, written only by the steps of the specifications that
    \* watch one aspect of a run more closely
    nest,     \* per thread: the deepest nesting of destructor calls reached
              \* by the teardown of its Drain so far
    moved,    \* per thread in add: another thread's compare-exchange or swap
              \* has changed head since this thread last read it
    cas,      \* per thread in add: whether its last compare-exchange failed,
              \* what was the case at that moment, and whether any
              \* compare-exchange of this add has failed
    won,      \* the last compare-exchange that succeeded: whether head had
              \* been changed since the add read it, and whether the add
              \* had failed before
    \* several WakerSets used by one thread, their handles able to wake a set
    ws,       \* per set: the wakers in its Sack, the most recently added first
    owned,    \* per set: the user still holds its own Arc of the set
    gone,     \* per set: the set was dropped
    stack,    \* the wake_all calls in progress, the innermost last
    wret      \* the wake_all call that returned in the last step, if one did

histVars  == <<pushed, snap, out, torn, added, yielded, dropped, due, cleared>>
sackVars == <<head, mem, pc, loc, dr, ret, wakes, set, fault,
              pushed, snap, out, torn, added, yielded, dropped, due, cleared>>
obsVars == <<nest, moved, cas, won>>
wsVars == <<ws, owned, gone, stack, wret>>
auxVars == <<obsVars, wsVars>>
vars == <<sackVars, auxVars>>

\* ------------------------------------------------------------- helpers
NoEntry  == [live |-> FALSE, item |-> 0, next |-> NULL]
NoLoc    == [item |-> 0, entry |-> NULL, count |-> 0]
NoDrain  == [live |-> FALSE, cur |-> NULL]
NoRet    == [t |-> 0, op |-> "none", val |-> 0]
Return(t, op, val) == [t |-> t, op |-> op, val |-> val]
Zero     == [i \in Items |-> 0]

Inc(f, i) == [f EXCEPT ![i] = @ + 1]

Plus(f, g) == [i \in Items |-> f[i] + g[i]]

BagOfSeq(s) == [i \in Items |-> Cardinality({k \in DOMAIN s : s[k] = i})]

Reverse(s) == [k \in 1..Len(s) |-> s[Len(s) + 1 - k]]

IsPrefix(s, u) == Len(s) <= Len(u) /\ SubSeq(u, 1, Len(s)) = s

\* The addresses met by following next from p, at most n links
RECURSIVE Walk(_, _, _)
Walk(m, p, n) ==
    IF p = NULL \/ n = 0 THEN <<>> ELSE <<p>> \o Walk(m, m[p].next, n - 1)

ChainAddrs(p) == Walk(mem, p, MaxAddr + 1)

ChainItems(p) == LET c == ChainAddrs(p) IN [k \in 1..Len(c) |-> mem[c[k]].item]

AddrSet(p) == LET c == ChainAddrs(p) IN {c[k] : k \in 1..Len(c)}

LiveCount == Cardinality({a \in Addr : mem[a].live})

RECURSIVE Sum(_, _)
Sum(f, S) == IF S = {} THEN 0
             ELSE LET x == CHOOSE y \in S : TRUE IN f[x] + Sum(f, S \ {x})

InAdd(t) == pc[t] \in {"add_load", "add_cas"}

\* add calls made so far: those that returned and those in flight
NumAdds == Sum(added, Items) + Cardinality({t \in Threads : InAdd(t)})

\* ------------------------------------------------------------- Init
Init ==
    /\ head = NULL
    /\ mem = [a \in Addr |-> NoEntry]
    /\ pc = [t \in Threads |-> "idle"]
    /\ loc = [t \in Threads |-> NoLoc]
    /\ dr = [t \in Threads |-> NoDrain]
    /\ ret = NoRet
    /\ wakes = Zero
    /\ set = "alive"
    /\ fault = FALSE
    /\ pushed = <<>>
    /\ snap = [t \in Threads |-> <<>>]
    /\ out = [t \in Threads |-> <<>>]
    /\ torn = [t \in Threads |-> <<>>]
    /\ added = Zero
    /\ yielded = Zero
    /\ dropped = Zero
    /\ due = Zero
    /\ cleared = Zero
    /\ nest = [t \in Threads |-> 0]
    /\ moved = [t \in Threads |-> FALSE]
    /\ cas = [t \in Threads |->
                 [failed |-> FALSE, moved |-> FALSE, same |-> FALSE, retried |-> FALSE]]
    /\ won = [moved |-> FALSE, retried |-> FALSE]
    /\ ws = [s \in 1..NSets |-> <<>>]
    /\ owned = [s \in 1..NSets |-> TRUE]
    /\ gone = [s \in 1..NSets |-> FALSE]
    /\ stack = <<>>
    /\ wret = [set |-> 0, via |-> "none", drain |-> <<>>, count |-> 0, snap |-> <<>>,
               woke |-> <<>>, late |-> <<>>, again |-> FALSE, left |-> <<>>]

\* ------------------------------------------------------------- Sack::add
\* the allocator hands out any address, allocated or not
AddAlloc_Reuse(t) ==
    /\ pc[t] = "idle"
    /\ set = "alive"
    /\ NumAdds < MaxAdds
    /\ \E item \in Items, a \in Addr :
        /\ mem' = [mem EXCEPT ![a] = [live |-> TRUE, item |-> item, next |-> NULL]]
        /\ loc' = [loc EXCEPT ![t] = [item |-> item, entry |-> a, count |-> 0]]
    /\ pc' = [pc EXCEPT ![t] = "add_load"]
    /\ ret' = NoRet
    /\ UNCHANGED <<head, fault, dr, wakes, set>>
    /\ UNCHANGED histVars

\* Box::leak(Box::new(Entry { item, next: null })): any free address; the
\* add calls of a run are limited to n and their items taken from I
Alloc(t, n, I) ==
    /\ pc[t] = "idle"
    /\ set = "alive"
    /\ NumAdds < n
    /\ \E item \in I, a \in Addr :
        /\ ~mem[a].live
        /\ mem' = [mem EXCEPT ![a] = [live |-> TRUE, item |-> item, next |-> NULL]]
        /\ loc' = [loc EXCEPT ![t] = [item |-> item, entry |-> a, count |-> 0]]
    /\ pc' = [pc EXCEPT ![t] = "add_load"]
    /\ ret' = NoRet
    /\ UNCHANGED <<head, fault, dr, wakes, set>>
    /\ UNCHANGED histVars

AddAlloc(t) == Alloc(t, MaxAdds, Items)

\* head is not read before the first compare-exchange: entry.next stays null
AddLoad_Null(t) ==
    /\ pc[t] = "add_load"
    /\ pc' = [pc EXCEPT ![t] = "add_cas"]
    /\ UNCHANGED <<head, mem, fault, loc, dr, ret, wakes, set>>
    /\ UNCHANGED histVars

\* entry.next = self.head.load(Acquire)
AddLoad(t) ==
    /\ pc[t] = "add_load"
    /\ mem' = [mem EXCEPT ![loc[t].entry].next = head]
    /\ pc' = [pc EXCEPT ![t] = "add_cas"]
    /\ UNCHANGED <<head, fault, loc, dr, ret, wakes, set>>
    /\ UNCHANGED histVars

\* a plain store in place of the compare-exchange
AddCasOk_Store(t) ==
    /\ pc[t] = "add_cas"
    /\ head' = loc[t].entry
    /\ pc' = [pc EXCEPT ![t] = "idle"]
    /\ pushed' = Append(pushed, loc[t].item)
    /\ added' = Inc(added, loc[t].item)
    /\ loc' = [loc EXCEPT ![t] = NoLoc]
    /\ ret' = NoRet
    /\ UNCHANGED <<mem, fault, dr, wakes, set,
                   snap, out, torn, yielded, dropped, due, cleared>>

\* the entry is published with its link cut: the chain it was put on is lost
AddCasOk_Unlinked(t) ==
    /\ pc[t] = "add_cas"
    /\ head = mem[loc[t].entry].next
    /\ head' = loc[t].entry
    /\ mem' = [mem EXCEPT ![loc[t].entry].next = NULL]
    /\ pc' = [pc EXCEPT ![t] = "idle"]
    /\ pushed' = Append(pushed, loc[t].item)
    /\ added' = Inc(added, loc[t].item)
    /\ loc' = [loc EXCEPT ![t] = NoLoc]
    /\ ret' = NoRet
    /\ UNCHANGED <<fault, dr, wakes, set,
                   snap, out, torn, yielded, dropped, due, cleared>>

\* compare_exchange_weak(entry.next, entry) returns Ok: head was entry.next
AddCasOk(t) ==
    /\ pc[t] = "add_cas"
    /\ head = mem[loc[t].entry].next
    /\ head' = loc[t].entry
    /\ pc' = [pc EXCEPT ![t] = "idle"]
    /\ pushed' = Append(pushed, loc[t].item)
    /\ added' = Inc(added, loc[t].item)
    /\ loc' = [loc EXCEPT ![t] = NoLoc]
    /\ ret' = NoRet
    /\ UNCHANGED <<mem, fault, dr, wakes, set,
                   snap, out, torn, yielded, dropped, due, cleared>>

\* Err(_) => {}: the value the exchange reports is not taken over
AddCasErr_Keep(t) ==
    /\ pc[t] = "add_cas"
    /\ UNCHANGED <<head, mem, fault, pc, loc, dr, ret, wakes, set>>
    /\ UNCHANGED histVars

\* compare_exchange_weak returns Err(current): head differs, or the weak
\* exchange fails spuriously; either way entry.next = current and retry
AddCasErr(t) ==
    /\ pc[t] = "add_cas"
    /\ mem' = [mem EXCEPT ![loc[t].entry].next = head]
    /\ UNCHANGED <<head, fault, pc, loc, dr, ret, wakes, set>>
    /\ UNCHANGED histVars

\* ------------------------------------------------------------- add, observed
NoCas == [failed |-> FALSE, moved |-> FALSE, same |-> FALSE, retried |-> FALSE]

\* head takes a new value: every other thread between its read of head and
\* its compare-exchange has now read a head that was changed since
Disturb(t) ==
    [u \in Threads |-> IF u # t /\ pc[u] = "add_cas" THEN TRUE ELSE moved[u]]

\* the adds observed carry the same item, which plays no part in what
\* they do to head
AddAllocSeen(t) ==
    /\ Alloc(t, MaxAdds, {1})
    /\ cas' = [cas EXCEPT ![t] = NoCas]
    /\ moved' = [moved EXCEPT ![t] = FALSE]
    /\ UNCHANGED <<nest, won>>
    /\ UNCHANGED wsVars

\* One add more than elsewhere, enough for an address to be released and
\* handed out again while an add that read it is still in flight
MaxAddsAba == MaxAdds + 1

AddAllocAba(t) ==
    /\ Alloc(t, MaxAddsAba, {1})
    /\ cas' = [cas EXCEPT ![t] = NoCas]
    /\ moved' = [moved EXCEPT ![t] = FALSE]
    /\ UNCHANGED <<nest, won>>
    /\ UNCHANGED wsVars

\* the load is the thread's read of head
AddLoadSeen(t) ==
    /\ AddLoad(t)
    /\ moved' = [moved EXCEPT ![t] = FALSE]
    /\ UNCHANGED <<nest, cas, won>>
    /\ UNCHANGED wsVars

\* Ok(_) => break: head changed from entry.next to entry
AddCasOkSeen(t) ==
    /\ AddCasOk(t)
    /\ moved' = [Disturb(t) EXCEPT ![t] = FALSE]
    /\ cas' = [cas EXCEPT ![t] = NoCas]
    /\ won' = [moved |-> moved[t], retried |-> cas[t].retried]
    /\ UNCHANGED nest
    /\ UNCHANGED wsVars

\* Err(current) => entry.next = current: the failure is recorded with what
\* was the case when it happened; current is the thread's new read of head
AddCasErrSeen(t) ==
    /\ AddCasErr(t)
    /\ cas' = [cas EXCEPT ![t] = [failed  |-> TRUE,
                                  moved   |-> moved[t],
                                  same    |-> head = mem[loc[t].entry].next,
                                  retried |-> TRUE]]
    /\ moved' = [moved EXCEPT ![t] = FALSE]
    /\ UNCHANGED <<nest, won>>
    /\ UNCHANGED wsVars

\* ------------------------------------------------------------- Sack::drain
\* every pointer taken for null
DrainNew_None(ptr) == [live |-> TRUE, cur |-> NULL]

\* Drain::new(ptr): None for the null pointer, else the Box at ptr
DrainNew(ptr) == [live |-> TRUE, cur |-> ptr]

\* a load in place of the swap: head keeps the chain
SwapHead_Load(t) ==
    /\ head' = head
    /\ dr' = [dr EXCEPT ![t] = DrainNew(head)]
    /\ snap' = [snap EXCEPT ![t] = pushed]
    /\ out' = [out EXCEPT ![t] = <<>>]
    /\ torn' = [torn EXCEPT ![t] = <<>>]
    /\ pushed' = <<>>

\* let head = self.head.swap(null, AcqRel); Drain::new(head)
SwapHead(t) ==
    /\ head' = NULL
    /\ dr' = [dr EXCEPT ![t] = DrainNew(head)]
    /\ snap' = [snap EXCEPT ![t] = pushed]
    /\ out' = [out EXCEPT ![t] = <<>>]
    /\ torn' = [torn EXCEPT ![t] = <<>>]
    /\ pushed' = <<>>

SackDrain(t) ==
    /\ pc[t] = "idle"
    /\ set = "alive"
    /\ ~dr[t].live
    /\ SwapHead(t)
    /\ ret' = NoRet
    /\ UNCHANGED <<mem, fault, pc, loc, wakes, set,
                   added, yielded, dropped, due, cleared>>

\* ------------------------------------------------------------- Drain::next
\* the Drain forgets the rest of the chain: Self::new(null)
TakeEntry_Forget(t) ==
    /\ mem' = [mem EXCEPT ![dr[t].cur] = NoEntry]
    /\ fault' = (fault \/ ~mem[dr[t].cur].live)
    /\ dr' = [dr EXCEPT ![t] = DrainNew(NULL)]

\* let entry = self.0.take()?; *self = Self::new(entry.next); the Box of
\* entry is released when next returns
TakeEntry(t) ==
    /\ mem' = [mem EXCEPT ![dr[t].cur] = NoEntry]
    /\ fault' = (fault \/ ~mem[dr[t].cur].live)
    /\ dr' = [dr EXCEPT ![t] = DrainNew(mem[dr[t].cur].next)]

\* an empty Drain takes the chain of the Sack again
DrainNext_Restart(t) ==
    /\ pc[t] = "idle"
    /\ dr[t].live
    /\ ret' = NoRet
    /\ IF dr[t].cur = NULL
       THEN /\ dr' = [dr EXCEPT ![t] = DrainNew(head)]
            /\ head' = NULL
            /\ pushed' = <<>>
            /\ UNCHANGED <<mem, fault, out, yielded>>
       ELSE /\ TakeEntry(t)
            /\ out' = [out EXCEPT ![t] = Append(@, mem[dr[t].cur].item)]
            /\ yielded' = Inc(yielded, mem[dr[t].cur].item)
            /\ UNCHANGED <<head, pushed>>
    /\ UNCHANGED <<pc, loc, wakes, set,
                   snap, torn, added, dropped, due, cleared>>

\* None from an empty Drain, which stays as it is; else Some(entry.item)
DrainNext(t) ==
    /\ pc[t] = "idle"
    /\ dr[t].live
    /\ ret' = NoRet
    /\ IF dr[t].cur = NULL
       THEN UNCHANGED <<mem, fault, dr, out, yielded>>
       ELSE /\ TakeEntry(t)
            /\ out' = [out EXCEPT ![t] = Append(@, mem[dr[t].cur].item)]
            /\ yielded' = Inc(yielded, mem[dr[t].cur].item)
    /\ UNCHANGED <<head, pc, loc, wakes, set,
                   pushed, snap, torn, added, dropped, due, cleared>>

\* ------------------------------------------------------------- Drain::drop
\* while let Some(entry) = self.0.take() { *self = Self::new(entry.next); }
\* no loop: the Drain releases the entry it holds and nothing behind it
DrainDrop_First(t) ==
    /\ pc[t] = "idle" /\ dr[t].live
    /\ ret' = NoRet
    /\ pc' = pc
    /\ IF dr[t].cur = NULL
       THEN UNCHANGED <<mem, fault, dropped, torn>>
       ELSE /\ mem' = [mem EXCEPT ![dr[t].cur] = NoEntry]
            /\ fault' = (fault \/ ~mem[dr[t].cur].live)
            /\ dropped' = Inc(dropped, mem[dr[t].cur].item)
            /\ torn' = [torn EXCEPT ![t] = Append(@, mem[dr[t].cur].item)]
    /\ dr' = [dr EXCEPT ![t] = NoDrain]
    /\ UNCHANGED <<head, loc, wakes, set,
                   pushed, snap, out, added, yielded, due, cleared>>

\* one turn of the loop; the Drain is gone when the loop ends
DrainDrop(t) ==
    /\ \/ pc[t] = "idle" /\ dr[t].live
       \/ pc[t] = "drop_loop"
    /\ ret' = NoRet
    /\ IF dr[t].cur = NULL
       THEN /\ dr' = [dr EXCEPT ![t] = NoDrain]
            /\ pc' = [pc EXCEPT ![t] = "idle"]
            /\ snap' = [snap EXCEPT ![t] = <<>>]
            /\ out' = [out EXCEPT ![t] = <<>>]
            /\ torn' = [torn EXCEPT ![t] = <<>>]
            /\ UNCHANGED <<mem, fault, dropped>>
       ELSE /\ TakeEntry(t)
            /\ pc' = [pc EXCEPT ![t] = "drop_loop"]
            /\ dropped' = Inc(dropped, mem[dr[t].cur].item)
            /\ torn' = [torn EXCEPT ![t] = Append(@, mem[dr[t].cur].item)]
            /\ UNCHANGED <<snap, out>>
    /\ UNCHANGED <<head, loc, wakes, set,
                   pushed, added, yielded, due, cleared>>

\* ------------------------------------------------------------- nesting of drops
Max(a, b) == IF a >= b THEN a ELSE b

\* next is an owning link (Option<Box<Entry<T>>>): the drop glue of an entry
\* drops the entry it links to, inside its own call
RECURSIVE EntryDropDepth_Owned(_, _)
EntryDropDepth_Owned(m, p) ==
    IF p = NULL THEN 0 ELSE 1 + Max(1, EntryDropDepth_Owned(m, m[p].next))

\* The calls nested in the release of the Box<Entry<T>> at p: the drop glue
\* of the Box and, inside it, the destructor of item.  next is a raw pointer
\* (*mut Entry<T>): it has no destructor and the entry it points to is not
\* visited.
EntryDropDepth(m, p) == IF p = NULL THEN 0 ELSE 1 + 1

\* *self = Self::new(entry.next) drops the value *self held, a Drain whose
\* Option was emptied by take(): one nested call of Drain::drop, whose loop
\* does not run
SelfAssignDepth == 1

\* Drain::drop, the drop glue of one Box<Entry<T>>, the destructor of T
TeardownDepth == 3

\* One turn of the loop of Drain::drop together with the calls nested in it;
\* the record ends with the teardown.
DrainDropNest(t) ==
    /\ DrainDrop(t)
    /\ nest' = [nest EXCEPT ![t] =
           IF dr[t].cur = NULL THEN 0
           ELSE Max(@, 1 + Max(SelfAssignDepth, EntryDropDepth(mem, dr[t].cur)))]
    /\ UNCHANGED <<moved, cas, won>>
    /\ UNCHANGED wsVars

\* the swap changes head unless the Sack was empty
SackDrainSeen(t) ==
    /\ SackDrain(t)
    /\ moved' = IF head = NULL THEN moved ELSE Disturb(t)
    /\ UNCHANGED <<nest, cas, won>>
    /\ UNCHANGED wsVars

\* ------------------------------------------------------------- Sack dropped
\* Sack<T> has no Drop impl and its only field is an AtomicPtr, which owns
\* nothing: when the owner drops the Sack (no call on it is running; a Drain
\* borrows nothing from the Sack and may outlive it) no entry is released
\* and the chain of head is out of reach for good.
SackDrop(t) ==
    /\ \A u \in Threads : pc[u] \in {"idle", "drop_loop"}
    /\ pc[t] = "idle"
    /\ set = "alive"
    /\ set' = "gone"
    /\ ret' = NoRet
    /\ UNCHANGED <<head, mem, fault, pc, loc, dr, wakes>>
    /\ UNCHANGED histVars

\* ------------------------------------------------------------- Sack::is_empty
\* the test inverted
IsNull_Inverted(p) == p # NULL

\* self.head.load(Acquire).is_null()
IsNull(p) == p = NULL

IsEmpty(t) ==
    /\ pc[t] = "idle"
    /\ set = "alive"
    /\ ret' = Return(t, "is_empty", IsNull(head))
    /\ UNCHANGED <<head, mem, fault, pc, loc, dr, wakes, set>>
    /\ UNCHANGED histVars

\* ------------------------------------------------------------- WakerSet
\* WakerSet::add and add_by_ref are Sack::add of the waker (or of its clone)

\* wake_all: let mut count = 0; for waker in self.0.drain() { ... }
WakeAllSwap(t) ==
    /\ pc[t] = "idle"
    /\ set = "alive"
    /\ ~dr[t].live
    /\ SwapHead(t)
    /\ due' = Plus(due, BagOfSeq(pushed))
    /\ pc' = [pc EXCEPT ![t] = "wake_next"]
    /\ loc' = [loc EXCEPT ![t] = NoLoc]
    /\ ret' = NoRet
    /\ UNCHANGED <<mem, fault, wakes, set, added, yielded, dropped, cleared>>

\* the loop drains the set again when its Drain runs out, until it finds
\* the set empty
WakeAllNext_Again(t) ==
    /\ pc[t] = "wake_next"
    /\ IF dr[t].cur = NULL /\ head = NULL
       THEN /\ dr' = [dr EXCEPT ![t] = NoDrain]
            /\ pc' = [pc EXCEPT ![t] = "idle"]
            /\ loc' = [loc EXCEPT ![t] = NoLoc]
            /\ ret' = Return(t, "wake_all", loc[t].count)
            /\ set' = IF set = "dropping" THEN "gone" ELSE set
            /\ UNCHANGED <<head, mem, fault, out, yielded, pushed>>
       ELSE IF dr[t].cur = NULL
       THEN /\ head' = NULL
            /\ dr' = [dr EXCEPT ![t] = DrainNew(head)]
            /\ pushed' = <<>>
            /\ UNCHANGED <<mem, fault, pc, loc, out, yielded, ret, set>>
       ELSE /\ TakeEntry(t)
            /\ pc' = [pc EXCEPT ![t] = "wake_wake"]
            /\ loc' = [loc EXCEPT ![t].item = mem[dr[t].cur].item]
            /\ out' = [out EXCEPT ![t] = Append(@, mem[dr[t].cur].item)]
            /\ yielded' = Inc(yielded, mem[dr[t].cur].item)
            /\ UNCHANGED <<head, pushed, ret, set>>
    /\ UNCHANGED <<wakes, snap, torn, added, dropped, due, cleared>>

\* the for loop asks the Drain for its next waker; at None the loop ends,
\* the (empty) Drain is dropped and wake_all returns count
WakeAllNext(t) ==
    /\ pc[t] = "wake_next"
    /\ IF dr[t].cur = NULL
       THEN /\ dr' = [dr EXCEPT ![t] = NoDrain]
            /\ pc' = [pc EXCEPT ![t] = "idle"]
            /\ loc' = [loc EXCEPT ![t] = NoLoc]
            /\ ret' = Return(t, "wake_all", loc[t].count)
            /\ set' = IF set = "dropping" THEN "gone" ELSE set
            /\ UNCHANGED <<mem, fault, out, yielded>>
       ELSE /\ TakeEntry(t)
            /\ pc' = [pc EXCEPT ![t] = "wake_wake"]
            /\ loc' = [loc EXCEPT ![t].item = mem[dr[t].cur].item]
            /\ out' = [out EXCEPT ![t] = Append(@, mem[dr[t].cur].item)]
            /\ yielded' = Inc(yielded, mem[dr[t].cur].item)
            /\ UNCHANGED <<ret, set>>
    /\ UNCHANGED <<head, wakes, pushed, snap, torn, added, dropped, due, cleared>>

\* the waker is dropped without being woken
WakeAllWake_NoWake(t) ==
    /\ pc[t] = "wake_wake"
    /\ wakes' = wakes
    /\ loc' = [loc EXCEPT ![t] = [item |-> 0, entry |-> NULL, count |-> @.count + 1]]
    /\ pc' = [pc EXCEPT ![t] = "wake_next"]
    /\ UNCHANGED <<head, mem, fault, dr, ret, set>>
    /\ UNCHANGED histVars

\* waker.wake(); count += 1;
WakeAllWake(t) ==
    /\ pc[t] = "wake_wake"
    /\ wakes' = Inc(wakes, loc[t].item)
    /\ loc' = [loc EXCEPT ![t] = [item |-> 0, entry |-> NULL, count |-> @.count + 1]]
    /\ pc' = [pc EXCEPT ![t] = "wake_next"]
    /\ UNCHANGED <<head, mem, fault, dr, ret, set>>
    /\ UNCHANGED histVars

\* clear: self.0.drain().count()
ClearSwap(t) ==
    /\ pc[t] = "idle"
    /\ set = "alive"
    /\ ~dr[t].live
    /\ SwapHead(t)
    /\ cleared' = Plus(cleared, BagOfSeq(pushed))
    /\ pc' = [pc EXCEPT ![t] = "clear_next"]
    /\ loc' = [loc EXCEPT ![t] = NoLoc]
    /\ ret' = NoRet
    /\ UNCHANGED <<mem, fault, wakes, set, added, yielded, dropped, due>>

\* every waker the Drain yields is woken before it is dropped
ClearNext_Wake(t) ==
    /\ pc[t] = "clear_next"
    /\ IF dr[t].cur = NULL
       THEN /\ dr' = [dr EXCEPT ![t] = NoDrain]
            /\ pc' = [pc EXCEPT ![t] = "idle"]
            /\ loc' = [loc EXCEPT ![t] = NoLoc]
            /\ ret' = Return(t, "clear", loc[t].count)
            /\ UNCHANGED <<mem, fault, out, yielded, wakes>>
       ELSE /\ TakeEntry(t)
            /\ loc' = [loc EXCEPT ![t].count = @ + 1]
            /\ out' = [out EXCEPT ![t] = Append(@, mem[dr[t].cur].item)]
            /\ yielded' = Inc(yielded, mem[dr[t].cur].item)
            /\ wakes' = Inc(wakes, mem[dr[t].cur].item)
            /\ UNCHANGED <<pc, ret>>
    /\ UNCHANGED <<head, set, pushed, snap, torn, added, dropped, due, cleared>>

\* Iterator::count: call next until None, dropping every waker it yields
ClearNext(t) ==
    /\ pc[t] = "clear_next"
    /\ IF dr[t].cur = NULL
       THEN /\ dr' = [dr EXCEPT ![t] = NoDrain]
            /\ pc' = [pc EXCEPT ![t] = "idle"]
            /\ loc' = [loc EXCEPT ![t] = NoLoc]
            /\ ret' = Return(t, "clear", loc[t].count)
            /\ UNCHANGED <<mem, fault, out, yielded>>
       ELSE /\ TakeEntry(t)
            /\ loc' = [loc EXCEPT ![t].count = @ + 1]
            /\ out' = [out EXCEPT ![t] = Append(@, mem[dr[t].cur].item)]
            /\ yielded' = Inc(yielded, mem[dr[t].cur].item)
            /\ UNCHANGED <<pc, ret>>
    /\ UNCHANGED <<head, wakes, set, pushed, snap, torn, added, dropped, due, cleared>>

\* no Drop impl: the set goes away with whatever it holds
WakerSetDrop_Nothing(t) ==
    /\ \A u \in Threads : pc[u] = "idle"
    /\ set = "alive"
    /\ ~dr[t].live
    /\ set' = "gone"
    /\ ret' = NoRet
    /\ UNCHANGED <<head, mem, fault, pc, loc, dr, wakes>>
    /\ UNCHANGED histVars

\* impl Drop for WakerSet: drop(&mut self) { self.wake_all(); }  The owner
\* drops the set when no other thread holds a reference to it.
WakerSetDrop(t) ==
    /\ \A u \in Threads : pc[u] = "idle"
    /\ set = "alive"
    /\ ~dr[t].live
    /\ set' = "dropping"
    /\ SwapHead(t)
    /\ due' = Plus(due, BagOfSeq(pushed))
    /\ pc' = [pc EXCEPT ![t] = "wake_next"]
    /\ loc' = [loc EXCEPT ![t] = NoLoc]
    /\ ret' = NoRet
    /\ UNCHANGED <<mem, fault, wakes, added, yielded, dropped, cleared>>

\* ------------------------------------------------------------- sets in sets
\* One thread using several WakerSets.  With no other thread at work an add
\* puts its waker in front of the chain and a drain takes the whole chain,
\* so the Sack of a set is kept as the sequence of its wakers.
Sets == 1..NSets

\* A waker is a CountingWaker ("leaf"), the handle of a set ("set":
\* Waker::from of an Arc<WakerSet>, whose wake is impl Wake for WakerSet),
\* or a waker holding an Arc of a set that registers a clone of itself in
\* that set when it is woken ("readd")
Wakers == [kind : {"leaf"}, id : Items] \cup [kind : {"set", "readd"}, id : Sets]

NoWret == [set |-> 0, via |-> "none", drain |-> <<>>, count |-> 0, snap |-> <<>>,
           woke |-> <<>>, late |-> <<>>, again |-> FALSE, left |-> <<>>]

RECURSIVE Flat(_, _)
Flat(f, n) == IF n = 0 THEN <<>> ELSE Flat(f, n - 1) \o f[n]

\* every waker that exists: those in the sets and those in the Drains of the
\* calls in progress
Pool == Flat(ws, NSets) \o Flat([k \in 1..Len(stack) |-> stack[k].drain], Len(stack))

\* the Arcs of set s held by wakers
Refs(s) ==
    Cardinality({k \in 1..Len(Pool) : Pool[k].kind \in {"set", "readd"} /\ Pool[k].id = s})

\* the frame of a wake_all of set s: let mut count = 0; self.0.drain()
Frame(s, via) ==
    [set |-> s, via |-> via, drain |-> ws[s], count |-> 0,
     snap |-> ws[s], woke |-> <<>>, late |-> <<>>, again |-> FALSE]

\* the calls in progress on set s see a later call drain their set
MarkAgain(st, s) ==
    [k \in 1..Len(st) |-> IF st[k].set = s THEN [st[k] EXCEPT !.again = TRUE] ELSE st[k]]

\* the calls in progress on set s see waker w added to their set
AddLate(st, s, w) ==
    [k \in 1..Len(st) |-> IF st[k].set = s THEN [st[k] EXCEPT !.late = Append(@, w)] ELSE st[k]]

\* the Drain's next waker leaves the Drain and is about to be woken
Taken(f) == [f EXCEPT !.drain = Tail(@), !.woke = Append(@, Head(f.drain))]

Top == stack[Len(stack)]

\* what a returning call leaves to be read: its frame, and the set as it is
Returned(f) ==
    [set |-> f.set, via |-> f.via, drain |-> f.drain, count |-> f.count, snap |-> f.snap,
     woke |-> f.woke, late |-> f.late, again |-> f.again, left |-> ws[f.set]]

\* WakerSet::add called by the user, who holds the set and what the waker holds
WsAdd(s, w) ==
    /\ stack = <<>>
    /\ owned[s]
    /\ w.kind \in {"set", "readd"} => owned[w.id]
    /\ Len(Pool) < MaxHandles
    /\ ws' = [ws EXCEPT ![s] = <<w>> \o @]
    /\ wret' = NoWret
    /\ UNCHANGED <<owned, gone, stack>>

\* WakerSet::wake_all called by the user
WsWakeAll(s) ==
    /\ stack = <<>>
    /\ owned[s]
    /\ stack' = <<Frame(s, "call")>>
    /\ ws' = [ws EXCEPT ![s] = <<>>]
    /\ wret' = NoWret
    /\ UNCHANGED <<owned, gone>>

\* the user drops its Arc of the set; impl Drop for WakerSet runs wake_all
\* if no waker holds the set
WsRelease(s) ==
    /\ stack = <<>>
    /\ owned[s]
    /\ owned' = [owned EXCEPT ![s] = FALSE]
    /\ IF Refs(s) = 0
       THEN /\ stack' = <<Frame(s, "drop")>>
            /\ ws' = [ws EXCEPT ![s] = <<>>]
       ELSE UNCHANGED <<ws, stack>>
    /\ wret' = NoWret
    /\ UNCHANGED gone

\* for waker in drain { waker.wake(); count += 1; } with a CountingWaker
TriggerLeaf ==
    /\ stack # <<>>
    /\ Top.drain # <<>>
    /\ Head(Top.drain).kind = "leaf"
    /\ stack' = [stack EXCEPT ![Len(stack)] = [Taken(Top) EXCEPT !.count = @ + 1]]
    /\ wret' = NoWret
    /\ UNCHANGED <<ws, owned, gone>>

\* ... with a waker that adds a clone of itself to the set it holds
TriggerReadd ==
    /\ stack # <<>>
    /\ Top.drain # <<>>
    /\ Head(Top.drain).kind = "readd"
    /\ LET w == Head(Top.drain) IN
        /\ ws' = [ws EXCEPT ![w.id] = <<w>> \o @]
        /\ stack' = AddLate([stack EXCEPT ![Len(stack)] = [Taken(Top) EXCEPT !.count = @ + 1]],
                            w.id, w)
    /\ wret' = NoWret
    /\ UNCHANGED <<owned, gone>>

\* the handle of a set clears the set: its wakers are dropped, none is woken
TriggerSet_Clear ==
    /\ stack # <<>>
    /\ Top.drain # <<>>
    /\ Head(Top.drain).kind = "set"
    /\ LET s == Head(Top.drain).id IN
        /\ stack' = Append(MarkAgain([stack EXCEPT ![Len(stack)] = Taken(Top)], s),
                           [Frame(s, "wake") EXCEPT !.drain = <<>>])
        /\ ws' = [ws EXCEPT ![s] = <<>>]
    /\ wret' = NoWret
    /\ UNCHANGED <<owned, gone>>

\* ... with the handle of a set: fn wake(self: Arc<Self>) { self.wake_all(); }
\* count += 1 of the caller follows when this wake returns
TriggerSet ==
    /\ stack # <<>>
    /\ Top.drain # <<>>
    /\ Head(Top.drain).kind = "set"
    /\ LET s == Head(Top.drain).id IN
        /\ stack' = Append(MarkAgain([stack EXCEPT ![Len(stack)] = Taken(Top)], s),
                           Frame(s, "wake"))
        /\ ws' = [ws EXCEPT ![s] = <<>>]
    /\ wret' = NoWret
    /\ UNCHANGED <<owned, gone>>

\* the wake that ends here consumed the last Arc of its set
LastArc ==
    /\ Top.via = "wake"
    /\ ~owned[Top.set]
    /\ Refs(Top.set) = 0
    /\ \A k \in 1..(Len(stack) - 1) : stack[k].set # Top.set

\* the calls left when the innermost returns; a wake that returns lets its
\* caller count it
Popped ==
    LET n == Len(stack) - 1 IN
    [k \in 1..n |-> IF k = n THEN [stack[k] EXCEPT !.count = @ + 1] ELSE stack[k]]

\* the loop drains the set again when its Drain runs out
WsReturn_Again ==
    /\ stack # <<>>
    /\ Top.drain = <<>>
    /\ IF ws[Top.set] # <<>>
       THEN /\ stack' = [stack EXCEPT ![Len(stack)].drain = ws[Top.set]]
            /\ ws' = [ws EXCEPT ![Top.set] = <<>>]
            /\ wret' = NoWret
            /\ UNCHANGED gone
       ELSE /\ wret' = Returned(Top)
            /\ stack' = Popped
            /\ gone' = IF Top.via = "drop" THEN [gone EXCEPT ![Top.set] = TRUE] ELSE gone
            /\ UNCHANGED ws
    /\ UNCHANGED owned

\* the Drain is exhausted: wake_all returns count.  When the call was the
\* wake of a handle that held the last Arc of the set, the set is dropped
\* next: impl Drop for WakerSet runs wake_all once more.
WsReturn ==
    /\ stack # <<>>
    /\ Top.drain = <<>>
    /\ wret' = Returned(Top)
    /\ IF LastArc
       THEN /\ stack' = [stack EXCEPT ![Len(stack)] = Frame(Top.set, "drop")]
            /\ ws' = [ws EXCEPT ![Top.set] = <<>>]
            /\ UNCHANGED gone
       ELSE /\ stack' = Popped
            /\ gone' = IF Top.via = "drop" THEN [gone EXCEPT ![Top.set] = TRUE] ELSE gone
            /\ UNCHANGED ws
    /\ UNCHANGED owned

\* ------------------------------------------------------------- specifications
\* Threads sharing one Sack<T> through its own interface
Next ==
    \E t \in Threads :
        \/ AddAlloc(t) /\ UNCHANGED auxVars
        \/ AddLoad(t) /\ UNCHANGED auxVars
        \/ AddCasOk(t) /\ UNCHANGED auxVars
        \/ AddCasErr(t) /\ UNCHANGED auxVars
        \/ SackDrain(t) /\ UNCHANGED auxVars
        \/ DrainNext(t) /\ UNCHANGED auxVars
        \/ DrainDrop(t) /\ UNCHANGED auxVars

Spec == Init /\ [][Next]_vars

\* Threads adding, draining and dropping their Drains, and asking is_empty
NextE ==
    \E t \in Threads :
        \/ AddAlloc(t) /\ UNCHANGED auxVars
        \/ AddLoad(t) /\ UNCHANGED auxVars
        \/ AddCasOk(t) /\ UNCHANGED auxVars
        \/ AddCasErr(t) /\ UNCHANGED auxVars
        \/ SackDrain(t) /\ UNCHANGED auxVars
        \/ DrainDrop(t) /\ UNCHANGED auxVars
        \/ IsEmpty(t) /\ UNCHANGED auxVars

SpecE == Init /\ [][NextE]_vars

\* Threads sharing one WakerSet, until its owner drops it
NextW ==
    \E t \in Threads :
        \/ AddAlloc(t) /\ UNCHANGED auxVars
        \/ AddLoad(t) /\ UNCHANGED auxVars
        \/ AddCasOk(t) /\ UNCHANGED auxVars
        \/ AddCasErr(t) /\ UNCHANGED auxVars
        \/ WakeAllSwap(t) /\ UNCHANGED auxVars
        \/ WakeAllNext(t) /\ UNCHANGED auxVars
        \/ WakeAllWake(t) /\ UNCHANGED auxVars
        \/ ClearSwap(t) /\ UNCHANGED auxVars
        \/ ClearNext(t) /\ UNCHANGED auxVars
        \/ WakerSetDrop(t) /\ UNCHANGED auxVars

SpecW == Init /\ [][NextW]_vars

\* One thread alone using a WakerSet: no operation overlaps another
NextSolo ==
    \E t \in {1} :
        \/ AddAlloc(t) /\ UNCHANGED auxVars
        \/ AddLoad(t) /\ UNCHANGED auxVars
        \/ AddCasOk(t) /\ UNCHANGED auxVars
        \/ AddCasErr(t) /\ UNCHANGED auxVars
        \/ WakeAllSwap(t) /\ UNCHANGED auxVars
        \/ WakeAllNext(t) /\ UNCHANGED auxVars
        \/ WakeAllWake(t) /\ UNCHANGED auxVars
        \/ ClearSwap(t) /\ UNCHANGED auxVars
        \/ ClearNext(t) /\ UNCHANGED auxVars
        \/ IsEmpty(t) /\ UNCHANGED auxVars
        \/ WakerSetDrop(t) /\ UNCHANGED auxVars

SpecSolo == Init /\ [][NextSolo]_vars

\* Threads sharing one Sack<T>, the depth of every teardown observed
NextT ==
    \E t \in Threads :
        \/ AddAlloc(t) /\ UNCHANGED auxVars
        \/ AddLoad(t) /\ UNCHANGED auxVars
        \/ AddCasOk(t) /\ UNCHANGED auxVars
        \/ AddCasErr(t) /\ UNCHANGED auxVars
        \/ SackDrain(t) /\ UNCHANGED auxVars
        \/ DrainNext(t) /\ UNCHANGED auxVars
        \/ DrainDropNest(t)

SpecT == Init /\ [][NextT]_vars

\* Threads adding and draining, every compare-exchange observed
NextP ==
    \E t \in Threads :
        \/ AddAllocSeen(t)
        \/ AddLoadSeen(t)
        \/ AddCasOkSeen(t)
        \/ AddCasErrSeen(t)
        \/ SackDrainSeen(t)
        \/ DrainDrop(t) /\ UNCHANGED auxVars

SpecP == Init /\ [][NextP]_vars

\* Threads adding, each draining at most once, under a fair scheduler: a
\* thread inside add is given its next step.  A failed exchange that leaves everything as it was is no step,
\* so a compare_exchange_weak that could succeed does not go on failing
\* spuriously for ever.
AddStep(t) == AddLoadSeen(t) \/ AddCasOkSeen(t) \/ AddCasErrSeen(t)

Fairness == \A t \in Threads : WF_vars(AddStep(t))

NextF ==
    \E t \in Threads :
        \/ AddAllocSeen(t)
        \/ AddStep(t)
        \/ SackDrainSeen(t)

SpecF == Init /\ [][NextF]_vars /\ Fairness

\* Threads adding and draining long enough for addresses to come back
NextA ==
    \E t \in Threads :
        \/ AddAllocAba(t)
        \/ AddLoadSeen(t)
        \/ AddCasOkSeen(t)
        \/ AddCasErrSeen(t)
        \/ SackDrainSeen(t)
        \/ DrainDrop(t) /\ UNCHANGED auxVars

SpecA == Init /\ [][NextA]_vars

\* Threads sharing one Sack<T> until its owner drops it; the Drains live on
NextL ==
    \E t \in Threads :
        \/ AddAlloc(t) /\ UNCHANGED auxVars
        \/ AddLoad(t) /\ UNCHANGED auxVars
        \/ AddCasOk(t) /\ UNCHANGED auxVars
        \/ AddCasErr(t) /\ UNCHANGED auxVars
        \/ SackDrain(t) /\ UNCHANGED auxVars
        \/ DrainNext(t) /\ UNCHANGED auxVars
        \/ DrainDrop(t) /\ UNCHANGED auxVars
        \/ SackDrop(t) /\ UNCHANGED auxVars

SpecL == Init /\ [][NextL]_vars

\* One thread using WakerSets whose wakers may be handles of WakerSets
NextN ==
    \/ \E s \in Sets, w \in Wakers : WsAdd(s, w) /\ UNCHANGED <<sackVars, obsVars>>
    \/ \E s \in Sets : WsWakeAll(s) /\ UNCHANGED <<sackVars, obsVars>>
    \/ \E s \in Sets : WsRelease(s) /\ UNCHANGED <<sackVars, obsVars>>
    \/ TriggerLeaf /\ UNCHANGED <<sackVars, obsVars>>
    \/ TriggerReadd /\ UNCHANGED <<sackVars, obsVars>>
    \/ TriggerSet /\ UNCHANGED <<sackVars, obsVars>>
    \/ WsReturn /\ UNCHANGED <<sackVars, obsVars>>

SpecN == Init /\ [][NextN]_vars

\* ------------------------------------------------------------- views of a state
Unit(i) == [j \in Items |-> IF j = i THEN 1 ELSE 0]

Minus(f, g) == [i \in Items |-> f[i] - g[i]]

\* the sum of the bags f[x], x in S
RECURSIVE BagSum(_, _)
BagSum(f, S) ==
    IF S = {} THEN Zero
    ELSE LET x == CHOOSE y \in S : TRUE IN Plus(f[x], BagSum(f, S \ {x}))

LiveDrains == {t \in Threads : dr[t].live}

\* the items still in the chain a thread's Drain owns
Remaining(t) == BagOfSeq(ChainItems(dr[t].cur))

NoAddInFlight == \A t \in Threads : ~InAdd(t)

\* the thread's Drain was consumed with next up to its end (and not by drop)
Exhausted(t) == dr[t].live /\ dr[t].cur = NULL /\ pc[t] = "idle"

\* ------------------------------------------------------------- C1
\* C1: when every add call made so far has returned and one drain detached
\* all of them (its swap came after all N compare-exchanges and no other swap
\* took any), then that Drain, once exhausted, has yielded exactly the
\* multiset of the N added items.
C1_DrainYieldsAllAdded ==
    \A t \in Threads :
        (/\ NoAddInFlight
         /\ Len(snap[t]) = NumAdds
         /\ Exhausted(t))
        => BagOfSeq(out[t]) = added

C1_Witness ==
    \E t \in Threads :
        /\ NoAddInFlight
        /\ NumAdds = MaxAdds
        /\ Len(snap[t]) = NumAdds
        /\ Exhausted(t)
        /\ Len(out[t]) = MaxAdds

\* ------------------------------------------------------------- C2
\* C2: a Drain yields its snapshot last-in-first-out: what it has yielded so
\* far is a prefix of the reverse of the order in which the adds' exchanges
\* succeeded, and all of it once the Drain is exhausted.
C2_DrainIsLifo ==
    \A t \in Threads :
        /\ IsPrefix(out[t], Reverse(snap[t]))
        /\ Exhausted(t) => out[t] = Reverse(snap[t])

C2_Witness ==
    \E t \in Threads :
        /\ Exhausted(t)
        /\ Len(out[t]) >= 2
        /\ out[t][1] # out[t][2]
        /\ snap[t][1] = out[t][Len(out[t])]

\* ------------------------------------------------------------- C3
\* C3: the chains held by different Drains, and the chain still in the Sack,
\* share no entry, and every item ever added is accounted for exactly once:
\* yielded by some Drain, released by a dropped Drain, or still held by one
\* Drain or by the Sack.
C3_DrainsPartition ==
    /\ \A t, u \in LiveDrains :
           t # u => AddrSet(dr[t].cur) \cap AddrSet(dr[u].cur) = {}
    /\ \A t \in LiveDrains : AddrSet(dr[t].cur) \cap AddrSet(head) = {}
    /\ added = Plus(Plus(yielded, dropped),
                    Plus(BagOfSeq(ChainItems(head)), BagSum([t \in Threads |-> Remaining(t)], LiveDrains)))
    /\ (head = NULL /\ NoAddInFlight /\ dropped = Zero
          /\ \A t \in LiveDrains : dr[t].cur = NULL)
       => yielded = added

C3_Witness ==
    \E t, u \in LiveDrains :
        /\ t # u
        /\ dr[t].cur # NULL
        /\ dr[u].cur # NULL

\* ------------------------------------------------------------- C4
\* C4: an add racing with a drain.  The items whose exchange succeeded before
\* a swap (and after the one before it) are exactly the chain that drain
\* got; the items whose exchange succeeded after the last swap are exactly
\* the chain reachable from head; the two chains share no entry; and an add
\* whose entry.next still points into a detached chain cannot succeed.
StaleAdd(t, u) ==
    /\ pc[t] = "add_cas"
    /\ u \in LiveDrains
    /\ mem[loc[t].entry].next \in AddrSet(dr[u].cur)

C4_AddRacingDrain ==
    /\ ChainItems(head) = Reverse(pushed)
    /\ \A u \in LiveDrains :
           /\ out[u] \o torn[u] \o ChainItems(dr[u].cur) = Reverse(snap[u])
           /\ AddrSet(dr[u].cur) \cap AddrSet(head) = {}
    /\ \A t \in Threads : InAdd(t) =>
           /\ loc[t].entry \notin AddrSet(head)
           /\ \A u \in LiveDrains : loc[t].entry \notin AddrSet(dr[u].cur)
    /\ \A t, u \in Threads : StaleAdd(t, u) => head # mem[loc[t].entry].next

C4_Witness ==
    \E t, u \in Threads : StaleAdd(t, u) /\ snap[u] # <<>>

\* ------------------------------------------------------------- C5
\* C5: is_empty returns true exactly when no add has completed since the
\* most recent swap (or since construction): true right after construction
\* and after a drain, false once an add has completed.
C5_IsEmpty ==
    ret.op = "is_empty" => (ret.val <=> pushed = <<>>)

C5_Witness ==
    /\ ret.op = "is_empty"
    /\ ret.val = FALSE
    /\ \E t \in Threads : snap[t] # <<>>

\* ------------------------------------------------------------- C6
\* C6: run alone on a set holding k handles, wake_all returns k, has woken
\* exactly those k handles once each (in drain order), and leaves the set
\* empty.
C6_WakeAllAlone ==
    ret.op = "wake_all" =>
        /\ ret.val = Len(snap[ret.t])
        /\ out[ret.t] = Reverse(snap[ret.t])
        /\ wakes = due
        /\ head = NULL
        /\ pushed = <<>>

C6_Witness ==
    /\ ret.op = "wake_all"
    /\ ret.val = 2
    /\ set = "alive"

\* ------------------------------------------------------------- C7
\* C7: wake_all is atomic with respect to add.  A call wakes exactly the
\* handles whose add completed before its swap and counts exactly those;
\* a handle whose add completes after the swap stays in the set.
InWakeAll(t) == pc[t] \in {"wake_next", "wake_wake"}

\* the handles a running wake_all has detached and not yet woken
Pending(t) ==
    Plus(Minus(BagOfSeq(snap[t]), BagOfSeq(out[t])),
         IF pc[t] = "wake_wake" THEN Unit(loc[t].item) ELSE Zero)

C7_WakeAllAtomic ==
    /\ Plus(wakes, BagSum([t \in Threads |-> Pending(t)], {t \in Threads : InWakeAll(t)})) = due
    /\ ret.op = "wake_all" =>
           /\ ret.val = Len(snap[ret.t])
           /\ out[ret.t] = Reverse(snap[ret.t])
    /\ ChainItems(head) = Reverse(pushed)

C7_Witness ==
    \E t \in Threads :
        /\ pc[t] = "wake_wake"
        /\ pushed # <<>>
        /\ wakes = Zero

\* ------------------------------------------------------------- C8
\* C8: clear on a set holding k handles returns k and removes exactly those
\* k, waking none of them: every wake is one that a wake_all snapshot
\* accounts for.  With nothing added since its swap the set is empty, and
\* with no call in flight no entry is left allocated.
C8_ClearWakesNone ==
    /\ Plus(wakes, BagSum([t \in Threads |-> Pending(t)],
                          {t \in Threads : InWakeAll(t)})) = due
    /\ ret.op = "clear" =>
           /\ ret.val = Len(snap[ret.t])
           /\ out[ret.t] = Reverse(snap[ret.t])
           /\ pushed = <<>> => head = NULL
           /\ (pushed = <<>> /\ \A t \in Threads : pc[t] = "idle") =>
                  /\ LiveCount = 0
                  /\ wakes = due
                  /\ added = Plus(wakes, cleared)

C8_Witness ==
    /\ ret.op = "clear"
    /\ ret.val = 2
    /\ wakes = Zero
    /\ head = NULL

\* ------------------------------------------------------------- C9
\* C9: once a WakerSet has been destroyed, every handle that was added and
\* not removed by clear has been woken exactly once, and nothing is left in
\* the set.
C9_DropWakesAll ==
    set = "gone" =>
        /\ wakes = due
        /\ added = Plus(wakes, cleared)
        /\ pushed = <<>>
        /\ head = NULL
        /\ LiveCount = 0

C9_Witness ==
    /\ set = "gone"
    /\ ret.op = "wake_all"
    /\ ret.val >= 1

\* ------------------------------------------------------------- C10
\* C10: no entry is released twice, the allocated entries are exactly those
\* owned by the Sack, by a live Drain or by the add that allocated them, and
\* a Drain accounts for the n entries of its snapshot at every moment: the
\* k it yielded, those its drop has released, and those it still holds; at
\* the end of its drop it holds none, so all n are released.
Owned ==
    AddrSet(head)
      \cup UNION {AddrSet(dr[t].cur) : t \in LiveDrains}
      \cup {loc[t].entry : t \in {u \in Threads : InAdd(u)}}

C10_DrainReleasesAll ==
    /\ ~fault
    /\ {a \in Addr : mem[a].live} = Owned
    /\ \A t \in LiveDrains :
           /\ Len(out[t]) + Len(torn[t]) + Len(ChainAddrs(dr[t].cur)) = Len(snap[t])
           /\ (pc[t] = "drop_loop" /\ dr[t].cur = NULL)
                  => out[t] \o torn[t] = Reverse(snap[t])
    /\ (head = NULL /\ LiveDrains = {} /\ NoAddInFlight) => LiveCount = 0

C10_Witness ==
    \E t \in Threads :
        /\ pc[t] = "drop_loop"
        /\ dr[t].cur = NULL
        /\ Len(out[t]) = 1
        /\ Len(torn[t]) = 1
        /\ LiveCount = 0

C12_FailureMeansProgress ==
    \A t \in Threads : cas[t].failed => cas[t].moved

\* C12, amended: whenever an add's compare-exchange has failed and reported
\* a head other than the value the add last read, another thread's add or
\* drain had changed head since that read (so that operation's exchange or
\* swap succeeded); a failure that reports the very value the add expected
\* is a spurious failure of compare_exchange_weak and shows no progress of
\* another thread.
C12_ContendedFailureMeansProgress ==
    \A t \in Threads :
        /\ (cas[t].failed /\ ~cas[t].same) => cas[t].moved
        /\ (pc[t] = "add_cas" /\ head # mem[loc[t].entry].next) => moved[t]

C12_Witness ==
    \E t \in Threads :
        /\ pc[t] = "add_cas"
        /\ cas[t].failed
        /\ ~cas[t].same
        /\ cas[t].moved

\* ------------------------------------------------------------- C13
\* C13: a set registered as a handle in another set is woken like a set on
\* which wake_all is called.  When a wake_all that was the wake of a set's
\* handle returns, it has woken every handle the set held at that moment
\* once each, in drain order, and counted them, and the set is empty unless
\* a handle was added to it during the call; while any call runs, the
\* handles it has woken and those still in its Drain are its snapshot.
C13_NestedWakeIsWakeAll ==
    /\ wret.via \in {"wake", "call"} =>
           /\ wret.woke = wret.snap
           /\ wret.count = Len(wret.snap)
           /\ wret.late = <<>> => wret.left = <<>>
    /\ \A k \in 1..Len(stack) : stack[k].woke \o stack[k].drain = stack[k].snap

C13_Witness ==
    /\ wret.via = "wake"
    /\ wret.snap # <<>>
    /\ wret.left = <<>>
    /\ Len(stack) = 1
    /\ stack[1].set # wret.set
    /\ stack[1].drain = <<>>

\* ------------------------------------------------------------- C14
\* C14: only one thread drains the Sack at a time: no two threads hold a
\* live Drain (created by drain and not yet dropped) of the same Sack at
\* the same moment.
C14_SingleDrainer ==
    Cardinality(LiveDrains) <= 1

\* ------------------------------------------------------------- C15
\* C15: every allocated entry has exactly one owner, and a released one has
\* none.  The owners are the chain of head, the chain of each live Drain,
\* and each add between its allocation and its successful exchange.  A
\* published entry is pointed to exactly once by head, by a Drain or by the
\* next link of another published entry; an unpublished one by none of
\* them.
Owners(a) ==
    (IF a \in AddrSet(head) THEN 1 ELSE 0)
      + Cardinality({t \in LiveDrains : a \in AddrSet(dr[t].cur)})
      + Cardinality({t \in Threads : InAdd(t) /\ loc[t].entry = a})

Unpublished == {loc[t].entry : t \in {u \in Threads : InAdd(u)}}

Incoming(a) ==
    (IF head = a THEN 1 ELSE 0)
      + Cardinality({t \in LiveDrains : dr[t].cur = a})
      + Cardinality({b \in Addr \ Unpublished : mem[b].live /\ mem[b].next = a})

C15_ExactlyOneOwner ==
    \A a \in Addr :
        /\ Owners(a) = IF mem[a].live THEN 1 ELSE 0
        /\ Incoming(a) = IF mem[a].live /\ a \notin Unpublished THEN 1 ELSE 0

C15_Witness ==
    /\ head # NULL
    /\ \E t \in LiveDrains : dr[t].cur # NULL /\ Owners(dr[t].cur) = 1
    /\ Owners(head) = 1
    /\ LiveCount = MaxAddr

\* ------------------------------------------------------------- C16
\* C16: the chain of head never repeats an address, ends at null and holds
\* allocated entries only; and whenever an add's compare-exchange succeeds,
\* the new head is the add's entry and its next is the head it replaced,
\* which is null or an allocated entry - also when head had changed and come
\* back to a reused address since the add read it.
HeadChainSound ==
    /\ Len(ChainAddrs(head)) = Cardinality(AddrSet(head))
    /\ Len(ChainAddrs(head)) <= MaxAddr
    /\ \A a \in AddrSet(head) : mem[a].live

CasSucceeds(t) == pc[t] = "add_cas" /\ pc'[t] = "idle"

C16_HeadChainSound ==
    /\ []HeadChainSound
    /\ [][\A t \in Threads : CasSucceeds(t) =>
              /\ head' = loc[t].entry
              /\ mem'[head'].next = head
              /\ head = NULL \/ mem'[head].live
              /\ ChainAddrs(head)' = <<head'>> \o ChainAddrs(head)]_vars

C16_Witness ==
    /\ won.moved
    /\ head # NULL
    /\ mem[head].next # NULL
    /\ LiveCount = 2

\* ------------------------------------------------------------- C17
\* C17: every add call completes: a thread inside add leaves it (the other
\* threads add finitely often), and it leaves it only by a successful
\* exchange, after which its entry is head and its item the first of
\* head's chain; add has no other way to return.
C17_AddCompletes ==
    /\ \A t \in Threads : InAdd(t) ~> ~InAdd(t)
    /\ [][\A t \in Threads : (InAdd(t) /\ ~InAdd(t)') =>
              /\ head' = loc[t].entry
              /\ mem'[head'].live
              /\ mem'[head'].item = loc[t].item
              /\ added' = Inc(added, loc[t].item)]_vars

C17_Witness ==
    /\ won.retried
    /\ ~won.moved
    /\ head # NULL
    /\ mem[head].next # NULL
    /\ NoAddInFlight

\* ------------------------------------------------------------- C18
\* C18: a Drain is a snapshot taken once.  The step that creates it gives it
\* exactly the chain head had and leaves head null (nothing, if head was
\* null); in every later step of any thread what it has yielded or released
\* together with what it still holds stays the same sequence, so nothing
\* added after the swap shows up in it; and once it holds nothing it holds
\* nothing and yields nothing ever after.
Account(t) == out[t] \o torn[t] \o ChainItems(dr[t].cur)

C18_DrainIsOneShot ==
    [][\A t \in Threads :
          /\ (~dr[t].live /\ dr'[t].live) =>
                 /\ ChainAddrs(dr[t].cur)' = ChainAddrs(head)
                 /\ head = NULL => dr'[t].cur = NULL
                 /\ head' = NULL
                 /\ out'[t] = <<>>
          /\ (dr[t].live /\ dr'[t].live) =>
                 /\ Account(t)' = Account(t)
                 /\ IsPrefix(out[t], out'[t])
                 /\ dr[t].cur = NULL => (dr'[t].cur = NULL /\ out'[t] = out[t])]_vars

C18_Witness ==
    \E t \in Threads :
        /\ Exhausted(t)
        /\ out[t] # <<>>
        /\ head # NULL
        /\ NoAddInFlight

\* ------------------------------------------------------------- C19
\* C19: wake_all ends and wakes its snapshot once each, also when a wake
\* re-enters the set (a waker that registers itself again, a set whose
\* handle is in the set itself or in a set it holds a handle of).  Every
\* step inside a call lowers a measure that cannot go below zero; what a
\* call has woken is always the beginning of its snapshot and, at its
\* return, all of it; and the handles added to its set since its swap are
\* in the set, where a later wake_all finds them, unless a later wake_all
\* has already taken some.
SetHandles == Cardinality({k \in 1..Len(Pool) : Pool[k].kind = "set"})

Weight(f) == Len(f.drain) + (IF f.via = "drop" THEN 1 ELSE 2)

RECURSIVE StackWeight(_)
StackWeight(st) ==
    IF st = <<>> THEN 0 ELSE Weight(Head(st)) + StackWeight(Tail(st))

\* a nested call costs one set handle and brings at most MaxHandles wakers
Measure == (MaxHandles + 3) * SetHandles + StackWeight(stack)

C19_ReentrantWakeAllEnds ==
    /\ [][stack # <<>> => Measure' < Measure]_vars
    /\ [](/\ Measure >= 0
          /\ wret.via # "none" => wret.woke = wret.snap /\ wret.count = Len(wret.snap)
          /\ \A k \in 1..Len(stack) :
                 /\ IsPrefix(stack[k].woke, stack[k].snap)
                 /\ IsPrefix(ws[stack[k].set], Reverse(stack[k].late))
                 /\ ~stack[k].again => ws[stack[k].set] = Reverse(stack[k].late))

C19_Witness ==
    /\ Len(stack) = 2
    /\ stack[1].set = stack[2].set
    /\ stack[1].late # <<>>
    /\ stack[2].woke # <<>>
    /\ stack[2].late # <<>>

\* ------------------------------------------------------------- C20
\* C20: no entry is leaked: once the Sack is destroyed and no Drain obtained
\* from it is left, no entry is allocated any more (and none was released
\* twice), the entries that were still in the Sack included.
C20_NoEntryLeaked ==
    (set = "gone" /\ LiveDrains = {}) => (LiveCount = 0 /\ ~fault)

====
